---- MODULE Spec2Model ----
(***************************************************************************)
(* State-machine model of the project-management REST backend.             *)
(*                                                                         *)
(* The document store holds three collections (users, projects, tasks).   *)
(* Every HTTP request is a sequence of atomic steps: the code that runs    *)
(* between two store calls (each `await`) is attached to the store call    *)
(* that precedes it, so a handler with k store calls takes k steps after   *)
(* its start step, and steps of different requests interleave freely.     *)
(*                                                                         *)
(* Ids are well-formed ObjectIds: project and task ids are the naturals    *)
(* issued by the store (never reused), NoId is a well-formed id that no    *)
(* record has; user ids are strings.                                       *)
(***************************************************************************)
EXTENDS Integers, Sequences, FiniteSets, TLC

VARIABLES
    users,        \* User collection:    id -> [email, role]
    projects,     \* Project collection: id -> [title, description, owner, members]
    tasks,        \* Task collection:    id -> [title, description, status, priority,
                  \*                            project, createdby, assignedto]
    nextProject,  \* how many project ids the store has issued
    nextTask,     \* how many task ids the store has issued
    req,          \* request slot -> the request in flight in it (or Idle)
    last          \* the response sent by the step that led to this state (or NoResp)

vars == <<users, projects, tasks, nextProject, nextTask, req, last>>
store == <<users, projects, tasks>>

-----------------------------------------------------------------------------
(* Bounds of the model *)

\* requests that can be in flight together
MaxSlots == 2
\* project ids the store issues in one behaviour (the initial project included)
MaxProjects == 1
\* task ids the store issues in one behaviour
MaxTasks == 2
\* users signup creates in one behaviour
MaxUsers == 2
\* largest page number and page size a list request asks for
MaxPage == 2

Slots == 1..MaxSlots

-----------------------------------------------------------------------------
(* Values *)

Absent == "absent"          \* a field the request does not carry
NoId == 0                   \* a well-formed id no record has
NoUser == "u0"              \* a well-formed user id no user has

Titles == {"T1", "T2"}
Descriptions == {"d1"}
StatusEnum == {"todo", "in_progress", "done"}
PriorityEnum == {"low", "high", "medium"}

NoToken == [id |-> "none", role |-> "none"]
\* the payload of a token signin issues for user u
Token(u) == [id |-> u, role |-> users[u].role]
Tokens == {Token(u) : u \in DOMAIN users}
Callers == Tokens \cup {NoToken}

AbsentId == -1              \* an id field the request does not carry

\* a page or limit query parameter that is not given
NoNumber == [kind |-> "absent", n |-> 0]

\* a request body or query: the fields it carries (Absent, AbsentId, NoNumber:
\* not carried)
NoBody == [title |-> Absent, description |-> Absent, status |-> Absent,
           priority |-> Absent, project |-> AbsentId, assignedto |-> Absent,
           createdby |-> Absent, name |-> Absent, email |-> Absent,
           password |-> Absent, role |-> Absent, page |-> NoNumber,
           limit |-> NoNumber]

NoDoc == [kind |-> "none"]

\* a request in flight: the operation, the store call it waits for, req.user,
\* the id in the path, the body, and the document its handler holds
Idle == [op |-> "idle", pc |-> "idle", caller |-> NoToken, id |-> NoId,
         body |-> NoBody, doc |-> NoDoc]
Request(op, pc, caller, id, body) ==
    [op |-> op, pc |-> pc, caller |-> caller, id |-> id, body |-> body,
     doc |-> NoDoc]

\* a response: the request it answers (operation, caller, path id, body or
\* query), the HTTP status, the id the store issued (created), the listed ids
\* in the order returned with the paging figures, and the document in the body
NoResp == [op |-> "none", caller |-> NoToken, id |-> NoId, body |-> NoBody,
           status |-> 0, created |-> NoId, items |-> <<>>, page |-> 0,
           limit |-> 0, totalPages |-> 0, total |-> 0, doc |-> NoDoc]
Resp(q, status) == [NoResp EXCEPT !.op = q.op, !.caller = q.caller,
                                  !.id = q.id, !.body = q.body,
                                  !.status = status]

-----------------------------------------------------------------------------
(* The store *)

Insert(coll, id, doc) == (id :> doc) @@ coll
\* a delete that empties the collection
DeleteAll(coll, id) == [i \in {} |-> coll[i]]
Delete(coll, id) == [i \in DOMAIN coll \ {id} |-> coll[i]]
\* Model.findById: the document, or null
Exists(coll, id) == id \in DOMAIN coll

\* a Project collection without the unique index
ProjectDuplicateKeyNoIndex(title, owner) == FALSE

\* projectSchema.index({title: 1, owner: 1}, {unique: true}): an insert that
\* would repeat a (title, owner) pair fails with E11000
ProjectDuplicateKey(title, owner) ==
    \E p \in DOMAIN projects :
        projects[p].title = title /\ projects[p].owner = owner

\* taskSchema declares single-field, non-unique indexes only (status, priority,
\* project, assignedto): no insert of a task fails with E11000
TaskDuplicateKey(title, project, assignedto) == FALSE

\* a User collection without the unique index
UserDuplicateKeyNoIndex(email) == FALSE

\* email: {type: String, unique: true}: an insert that would repeat an email
\* fails with E11000
UserDuplicateKey(email) == \E u \in DOMAIN users : users[u].email = email

\* the ids the store gives to users, in the order it issues them
UserIds == <<"u1", "u2", "u3", "u4", "u5", "u6", "u7", "u8", "u9">>

\* the error code of a duplicate-key failure
E11000 == 11000

\* a catch block that reports every failure as 500
CatchStatusInternal(code) == 500

\* catch (error): if (error.code === 11000) 409, else 500
CatchStatus(code) == IF code = E11000 THEN 409 ELSE 500

\* bcrypt.hash(password, 5): a string other than the password, from which
\* bcrypt.compare tells whether a password is the hashed one
Hash(password) == "$2b$05$" \o password
\* a comparison that accepts every password
CompareAny(password, hashed) == TRUE
Compare(password, hashed) == hashed = Hash(password)

\* the addresses z.string().email() accepts
Emails == {"u1@x.io", "u2@x.io", "u3@x.io", "a@x.io", "b@x.io"}
\* a text it rejects
NotAnEmail == "a.x.io"

\* the accounts signup has created: one admin and two users, each with the
\* password "secret1"
InitUsers ==
    [u \in {"u1", "u2", "u3"} |->
        [name |-> u, email |-> u \o "@x.io", password |-> Hash("secret1"),
         role |-> IF u = "u1" THEN "admin" ELSE "user"]]

-----------------------------------------------------------------------------
(* Middlewares *)

MutatingOps == {"createProject", "deleteProject", "createTask", "updateTask",
                "deleteTask"}
ReadingOps == {"listProjects", "getProject", "listTasks", "getTask"}

\* routes registered with userAuth only
MiddlewaresUserAuthOnly(op) ==
    IF op \in MutatingOps \cup ReadingOps THEN <<"userAuth">> ELSE <<>>

\* the middleware chain each route is registered with, in order
Middlewares(op) ==
    CASE op \in MutatingOps -> <<"userAuth", "adminAuth">>
      [] op \in ReadingOps -> <<"userAuth">>
      [] OTHER -> <<>>

\* userAuth: rejects a request without a valid token with 401, else sets req.user
userAuth(caller) == IF caller = NoToken THEN 401 ELSE 0
\* adminAuth: rejects a caller whose role is not admin with 403
adminAuth(caller) == IF caller.role = "admin" THEN 0 ELSE 403

RunMiddleware(name, caller) ==
    IF name = "userAuth" THEN userAuth(caller) ELSE adminAuth(caller)

\* the status of the first middleware of the chain that rejects, 0 when all pass
RECURSIVE RunChain(_, _)
RunChain(chain, caller) ==
    IF chain = <<>> THEN 0
    ELSE LET s == RunMiddleware(Head(chain), caller)
         IN IF s # 0 THEN s ELSE RunChain(Tail(chain), caller)

Gate(op, caller) == RunChain(Middlewares(op), caller)

-----------------------------------------------------------------------------
(* Steps shared by the handlers *)

\* res.status(s).json(...): the request ends
Reply(r, resp) ==
    /\ req' = [req EXCEPT ![r] = Idle]
    /\ last' = resp

\* the handler goes on to its next store call
Continue(r, request) ==
    /\ req' = [req EXCEPT ![r] = request]
    /\ last' = NoResp

\* ids a client can put in a path or a body: those the store has issued, and
\* one it never issued
ProjectIdInputs == (1..nextProject) \cup {NoId}
TaskIdInputs == (1..nextTask) \cup {NoId}
UserIdInputs == DOMAIN users \cup {NoUser}

\* a query parameter: absent, a text without leading digits ("abc"), the
\* digits of n, or the digits of n followed by other characters ("2abc")
QueryNumbers == {NoNumber, [kind |-> "text", n |-> 0]}
                \cup {[kind |-> "num", n |-> k] : k \in 0..MaxPage}
                \cup {[kind |-> "mixed", n |-> k] : k \in 1..MaxPage}

\* parseInt(q) || d: parseInt reads the leading digits and gives NaN for an
\* absent value and for a text without leading digits; NaN and 0 are falsy
ParseIntOr(q, d) == IF q.kind \in {"num", "mixed"} /\ q.n # 0 THEN q.n ELSE d

\* the ids of S in the store's natural (insertion) order
RECURSIVE Ordered(_)
Ordered(S) ==
    IF S = {} THEN <<>>
    ELSE LET m == CHOOSE x \in S : \A y \in S : x <= y
         IN <<m>> \o Ordered(S \ {m})

\* a query that skips one record too many
SkipLimitOffByOne(matching, skip, limit) ==
    LET all == Ordered(matching)
    IN IF skip + 2 > Len(all) THEN <<>>
       ELSE SubSeq(all, skip + 2,
                   IF skip + 1 + limit < Len(all) THEN skip + 1 + limit
                   ELSE Len(all))

\* Model.find(filter).skip(skip).limit(limit) over the matching ids
SkipLimit(matching, skip, limit) ==
    LET all == Ordered(matching)
        from == skip + 1
        to == IF skip + limit < Len(all) THEN skip + limit ELSE Len(all)
    IN IF from > Len(all) THEN <<>> ELSE SubSeq(all, from, to)

\* Math.ceil(total / limit)
CeilDiv(total, limit) == (total + limit - 1) \div limit

\* the paginated response of the two list handlers
ListResp(q, matching, pageQ, limitQ) ==
    LET page == ParseIntOr(pageQ, 1)
        limit == ParseIntOr(limitQ, 1)
        skip == (page - 1) * limit
        total == Cardinality(matching)
    IN [Resp(q, 200) EXCEPT
            !.items = SkipLimit(matching, skip, limit),
            !.page = page,
            !.limit = limit,
            !.totalPages = CeilDiv(total, limit),
            !.total = total]

\* requests of kind op that passed their start and have not answered yet
InFlight(op) == Cardinality({r \in Slots : req[r].op = op})

-----------------------------------------------------------------------------
(* POST /project *)

\* z.object({title: z.string().min(1), description: z.string().min(1)})
ValidProjectBody(body) ==
    /\ body.title \notin {Absent, ""}
    /\ body.description \notin {Absent, ""}

\* cap: the project ids the store may issue in this behaviour
CreateProjectStart(r, callers, bodies, cap) ==
    /\ req[r] = Idle
    /\ nextProject + InFlight("createProject") < cap
    /\ \E caller \in callers, body \in bodies :
         LET q == Request("createProject", "create", caller, NoId, body)
             gate == Gate(q.op, caller)
         IN IF gate # 0 THEN Reply(r, Resp(q, gate))
            ELSE IF ~ValidProjectBody(body) THEN Reply(r, Resp(q, 400))
            ELSE Continue(r, q)
    /\ UNCHANGED <<users, projects, tasks, nextProject, nextTask>>

\* a Project.create that stores no owner
NewProjectNoOwner(body, owner) ==
    [title |-> body.title, description |-> body.description, owner |-> NoUser,
     members |-> {}]

\* a Project.create that enrols the owner as a member
NewProjectOwnerMember(body, owner) ==
    [title |-> body.title, description |-> body.description, owner |-> owner,
     members |-> {owner}]

\* the document Project.create({title, description, owner: req.user.id})
\* stores: members is the schema's empty array
NewProject(body, owner) ==
    [title |-> body.title, description |-> body.description, owner |-> owner,
     members |-> {}]

\* await Project.create({title, description, owner: req.user.id}); the catch
\* block answers a failure; the 201 body is a message without the new id
CreateProjectCreate(r) ==
    /\ req[r].op = "createProject" /\ req[r].pc = "create"
    /\ LET q == req[r]
           id == nextProject + 1
       IN IF ProjectDuplicateKey(q.body.title, q.caller.id)
          THEN /\ Reply(r, [Resp(q, CatchStatus(E11000)) EXCEPT
                                !.doc = [error |-> "Duplicate project",
                                         details |-> "You already have a project with this title"]])
               /\ UNCHANGED <<projects, nextProject>>
          ELSE /\ projects' = Insert(projects, id, NewProject(q.body, q.caller.id))
               /\ nextProject' = id
               /\ Reply(r, Resp(q, 201))
    /\ UNCHANGED <<users, tasks, nextTask>>

-----------------------------------------------------------------------------
(* GET /project *)

\* a list query without the owner/members filter
ProjectFilterNone(caller) == DOMAIN projects

\* a list query that applies the owner/members filter to admins too
ProjectFilterOwned(caller) ==
    {p \in DOMAIN projects :
        projects[p].owner = caller.id \/ caller.id \in projects[p].members}

\* the projects the list query matches: all of them for an admin, else
\* {$or: [{owner: req.user.id}, {members: req.user.id}]}
ProjectFilter(caller) ==
    IF caller.role = "admin"
    THEN DOMAIN projects
    ELSE {p \in DOMAIN projects :
            projects[p].owner = caller.id \/ caller.id \in projects[p].members}

\* countDocuments and find are taken together: no write comes between them
ListProjects(r, callers, pages, limits) ==
    /\ req[r] = Idle
    /\ \E caller \in callers, pageQ \in pages, limitQ \in limits :
         LET query == [NoBody EXCEPT !.page = pageQ, !.limit = limitQ]
             q == Request("listProjects", "find", caller, NoId, query)
             gate == Gate(q.op, caller)
         IN IF gate # 0 THEN Reply(r, Resp(q, gate))
            ELSE Reply(r, ListResp(q, ProjectFilter(caller), pageQ, limitQ))
    /\ UNCHANGED <<users, projects, tasks, nextProject, nextTask>>

-----------------------------------------------------------------------------
(* GET /project/:id *)

GetProjectStart(r, callers) ==
    /\ req[r] = Idle
    /\ \E caller \in callers, id \in ProjectIdInputs :
         LET q == Request("getProject", "find", caller, id, NoBody)
             gate == Gate(q.op, caller)
         IN IF gate # 0 THEN Reply(r, Resp(q, gate)) ELSE Continue(r, q)
    /\ UNCHANGED <<users, projects, tasks, nextProject, nextTask>>

\* a getProject that forgets the members
GetProjectStatusOwnerOnly(caller, id) ==
    IF ~Exists(projects, id) THEN 404
    ELSE IF caller.role = "admin" \/ projects[id].owner = caller.id THEN 200
    ELSE 403

\* the status getProject answers once Project.findById has returned
GetProjectStatus(caller, id) ==
    IF ~Exists(projects, id) THEN 404
    ELSE IF caller.role = "admin" THEN 200
    ELSE LET isOwner == projects[id].owner = caller.id
             isMember == caller.id \in projects[id].members
         IN IF ~isOwner /\ ~isMember THEN 403 ELSE 200

GetProjectFind(r) ==
    /\ req[r].op = "getProject" /\ req[r].pc = "find"
    /\ LET q == req[r]
           status == GetProjectStatus(q.caller, q.id)
       IN Reply(r, [Resp(q, status) EXCEPT
                        !.doc = IF status = 200 THEN projects[q.id] ELSE NoDoc])
    /\ UNCHANGED <<users, projects, tasks, nextProject, nextTask>>

-----------------------------------------------------------------------------
(* DELETE /project/:id *)

DeleteProjectStart(r, callers) ==
    /\ req[r] = Idle
    /\ \E caller \in callers, id \in ProjectIdInputs :
         LET q == Request("deleteProject", "find", caller, id, NoBody)
             gate == Gate(q.op, caller)
         IN IF gate # 0 THEN Reply(r, Resp(q, gate)) ELSE Continue(r, q)
    /\ UNCHANGED <<users, projects, tasks, nextProject, nextTask>>

\* const project = await Project.findById(projectId)
DeleteProjectFind(r) ==
    /\ req[r].op = "deleteProject" /\ req[r].pc = "find"
    /\ LET q == req[r]
       IN IF ~Exists(projects, q.id)
          THEN Reply(r, Resp(q, 404))
          ELSE Continue(r, [q EXCEPT !.pc = "delete"])
    /\ UNCHANGED <<users, projects, tasks, nextProject, nextTask>>

\* a deleteProject that removes the project's tasks with it
DeleteProjectCascade(r) ==
    /\ req[r].op = "deleteProject" /\ req[r].pc = "delete"
    /\ LET q == req[r]
       IN /\ projects' = Delete(projects, q.id)
          /\ tasks' = [t \in {u \in DOMAIN tasks : tasks[u].project # q.id}
                          |-> tasks[t]]
          /\ Reply(r, Resp(q, 200))
    /\ UNCHANGED <<users, nextProject, nextTask>>

\* await Project.findByIdAndDelete(projectId): removes the project if it is
\* still there; the tasks that reference it are not touched
DeleteProjectDelete(r) ==
    /\ req[r].op = "deleteProject" /\ req[r].pc = "delete"
    /\ LET q == req[r]
       IN /\ projects' = Delete(projects, q.id)
          /\ Reply(r, Resp(q, 200))
    /\ UNCHANGED <<users, tasks, nextProject, nextTask>>

-----------------------------------------------------------------------------
(* POST /tasks *)

\* taskSchema.safeParse(req.body)
ValidTaskBody(body) ==
    /\ body.title \notin {Absent, ""}
    /\ body.description \notin {Absent, ""}
    /\ body.project # AbsentId
    /\ body.assignedto \notin {Absent, ""}
    /\ body.status \in StatusEnum \cup {Absent}
    /\ body.priority \in PriorityEnum \cup {Absent}

\* cap: the task ids the store may issue in this behaviour
CreateTaskStart(r, callers, bodies, cap) ==
    /\ req[r] = Idle
    /\ nextTask + InFlight("createTask") < cap
    /\ \E caller \in callers, body \in bodies :
         LET q == Request("createTask", "findProject", caller, NoId, body)
             gate == Gate(q.op, caller)
         IN IF gate # 0 THEN Reply(r, Resp(q, gate))
            ELSE IF ~ValidTaskBody(body) THEN Reply(r, Resp(q, 400))
            ELSE Continue(r, q)
    /\ UNCHANGED <<users, projects, tasks, nextProject, nextTask>>

\* a createTask that does not look the project up
CreateTaskNoProjectCheck(r) ==
    /\ req[r].op = "createTask" /\ req[r].pc = "findProject"
    /\ Continue(r, [req[r] EXCEPT !.pc = "findUser"])
    /\ UNCHANGED <<users, projects, tasks, nextProject, nextTask>>

\* const findProject = await Project.findById(project)
CreateTaskFindProject(r) ==
    /\ req[r].op = "createTask" /\ req[r].pc = "findProject"
    /\ LET q == req[r]
       IN IF ~Exists(projects, q.body.project)
          THEN Reply(r, [Resp(q, 404) EXCEPT
                            !.doc = [error |-> "Project not available"]])
          ELSE Continue(r, [q EXCEPT !.pc = "findUser"])
    /\ UNCHANGED <<users, projects, tasks, nextProject, nextTask>>

\* const finduser = await User.findById(assignedto)
CreateTaskFindUser(r) ==
    /\ req[r].op = "createTask" /\ req[r].pc = "findUser"
    /\ LET q == req[r]
       IN IF ~Exists(users, q.body.assignedto)
          THEN Reply(r, [Resp(q, 404) EXCEPT
                            !.doc = [error |-> "user not available to which task assigned to"]])
          ELSE Continue(r, [q EXCEPT !.pc = "findOne"])
    /\ UNCHANGED <<users, projects, tasks, nextProject, nextTask>>

\* a createTask without the duplicate pre-check
ExistingTaskNoCheck(title, project, assignedto) == FALSE

\* Task.findOne({title, project, assignedto}) finds a task
ExistingTask(title, project, assignedto) ==
    \E t \in DOMAIN tasks :
        /\ tasks[t].title = title
        /\ tasks[t].project = project
        /\ tasks[t].assignedto = assignedto

CreateTaskFindOne(r) ==
    /\ req[r].op = "createTask" /\ req[r].pc = "findOne"
    /\ LET q == req[r]
       IN IF ExistingTask(q.body.title, q.body.project, q.body.assignedto)
          THEN Reply(r, Resp(q, 409))
          ELSE Continue(r, [q EXCEPT !.pc = "create"])
    /\ UNCHANGED <<users, projects, tasks, nextProject, nextTask>>

\* a Task.create that records the assignee as the creator
NewTaskCreatedByAssignee(body, createdby) ==
    [title |-> body.title,
     description |-> body.description,
     status |-> IF body.status = Absent THEN "todo" ELSE body.status,
     priority |-> IF body.priority = Absent THEN "medium" ELSE body.priority,
     project |-> body.project,
     createdby |-> body.assignedto,
     assignedto |-> body.assignedto]

\* the document Task.create stores: status and priority take the schema
\* defaults when the body does not carry them
NewTask(body, createdby) ==
    [title |-> body.title,
     description |-> body.description,
     status |-> IF body.status = Absent THEN "todo" ELSE body.status,
     priority |-> IF body.priority = Absent THEN "medium" ELSE body.priority,
     project |-> body.project,
     createdby |-> createdby,
     assignedto |-> body.assignedto]

\* const taskid = await Task.create({...}); E11000 is caught and answered 409
CreateTaskCreate(r) ==
    /\ req[r].op = "createTask" /\ req[r].pc = "create"
    /\ LET q == req[r]
           id == nextTask + 1
       IN IF TaskDuplicateKey(q.body.title, q.body.project, q.body.assignedto)
          THEN /\ Reply(r, [Resp(q, CatchStatus(E11000)) EXCEPT
                                !.doc = [error |-> "Duplicate entry",
                                         details |-> "This entry already exists"]])
               /\ UNCHANGED <<tasks, nextTask>>
          ELSE /\ tasks' = Insert(tasks, id, NewTask(q.body, q.caller.id))
               /\ nextTask' = id
               /\ Reply(r, [Resp(q, 201) EXCEPT !.created = id])
    /\ UNCHANGED <<users, projects, nextProject>>

-----------------------------------------------------------------------------
(* GET /tasks *)

\* Project.find({members: req.user.id}).select('_id')
MemberProjectIds(caller) ==
    {p \in DOMAIN projects : caller.id \in projects[p].members}

\* a list query in which a project parameter replaces the $or condition
TaskFilterProjectFirst(caller, status, priority, project) ==
    {t \in DOMAIN tasks :
        /\ \/ caller.role = "admin"
           \/ project # AbsentId
           \/ tasks[t].assignedto = caller.id
           \/ tasks[t].project \in {p \in DOMAIN projects :
                                        caller.id \in projects[p].members}
        /\ status # Absent => tasks[t].status = status
        /\ priority # Absent => tasks[t].priority = priority
        /\ project # AbsentId => tasks[t].project = project}

\* a list query that leaves the caller's member projects out
TaskFilterAssignedOnly(caller, status, priority, project) ==
    {t \in DOMAIN tasks :
        /\ caller.role = "admin" \/ tasks[t].assignedto = caller.id
        /\ status # Absent => tasks[t].status = status
        /\ priority # Absent => tasks[t].priority = priority
        /\ project # AbsentId => tasks[t].project = project}

\* the tasks the list query matches; a query parameter that is not given
\* (Absent, AbsentId) adds no condition
TaskFilter(caller, status, priority, project) ==
    {t \in DOMAIN tasks :
        /\ \/ caller.role = "admin"
           \/ tasks[t].assignedto = caller.id
           \/ tasks[t].project \in MemberProjectIds(caller)
        /\ status # Absent => tasks[t].status = status
        /\ priority # Absent => tasks[t].priority = priority
        /\ project # AbsentId => tasks[t].project = project}

\* the member-project query, countDocuments and find are taken together: no
\* write comes between them
ListTasks(r, callers, pages, limits, statuses, priorities, projectIds) ==
    /\ req[r] = Idle
    /\ \E caller \in callers, pageQ \in pages, limitQ \in limits,
          status \in statuses, priority \in priorities, project \in projectIds :
         LET query == [NoBody EXCEPT !.status = status, !.priority = priority,
                                     !.project = project, !.page = pageQ,
                                     !.limit = limitQ]
             q == Request("listTasks", "find", caller, NoId, query)
             gate == Gate(q.op, caller)
         IN IF gate # 0 THEN Reply(r, Resp(q, gate))
            ELSE Reply(r, ListResp(q, TaskFilter(caller, status, priority, project),
                                   pageQ, limitQ))
    /\ UNCHANGED <<users, projects, tasks, nextProject, nextTask>>

-----------------------------------------------------------------------------
(* GET /tasks/:id *)

GetTaskStart(r, callers) ==
    /\ req[r] = Idle
    /\ \E caller \in callers, id \in TaskIdInputs :
         LET q == Request("getTask", "findTask", caller, id, NoBody)
             gate == Gate(q.op, caller)
         IN IF gate # 0 THEN Reply(r, Resp(q, gate)) ELSE Continue(r, q)
    /\ UNCHANGED <<users, projects, tasks, nextProject, nextTask>>

\* const task = await Task.findById(taskId); an admin and the assignee are
\* answered at once, the handler of any other caller keeps the task and goes
\* on to look its project up
GetTaskFindTask(r) ==
    /\ req[r].op = "getTask" /\ req[r].pc = "findTask"
    /\ LET q == req[r]
       IN IF ~Exists(tasks, q.id)
          THEN Reply(r, Resp(q, 404))
          ELSE IF q.caller.role = "admin"
          THEN Reply(r, [Resp(q, 200) EXCEPT !.doc = tasks[q.id]])
          ELSE IF tasks[q.id].assignedto = q.caller.id
          THEN Reply(r, [Resp(q, 200) EXCEPT !.doc = tasks[q.id]])
          ELSE Continue(r, [q EXCEPT !.pc = "findProject", !.doc = tasks[q.id]])
    /\ UNCHANGED <<users, projects, tasks, nextProject, nextTask>>

\* a membership test that also lets the project's owner in
TaskIsMemberOrOwner(caller, project) ==
    \/ caller.id \in projects[project].members
    \/ projects[project].owner = caller.id

\* project.members && project.members.length > 0 &&
\*     project.members.map(id => id.toString()).includes(req.user.id)
TaskIsMember(caller, project) ==
    /\ projects[project].members # {}
    /\ caller.id \in projects[project].members

\* a getTask that answers 403 when the task's project is gone
GetTaskStatusForbidden(caller, task) ==
    IF ~Exists(projects, task.project) THEN 403
    ELSE IF caller.id \in projects[task.project].members THEN 200
    ELSE 403

\* the status getTask answers once Project.findById(task.project) has returned
GetTaskStatus(caller, task) ==
    IF ~Exists(projects, task.project) THEN 404
    ELSE IF TaskIsMember(caller, task.project) THEN 200
    ELSE 403

GetTaskFindProject(r) ==
    /\ req[r].op = "getTask" /\ req[r].pc = "findProject"
    /\ LET q == req[r]
           status == GetTaskStatus(q.caller, q.doc)
       IN Reply(r, [Resp(q, status) EXCEPT
                        !.doc = IF status = 200 THEN q.doc ELSE NoDoc])
    /\ UNCHANGED <<users, projects, tasks, nextProject, nextTask>>

-----------------------------------------------------------------------------
(* PATCH /tasks/:id *)

\* no schema is applied to the body: const updates = req.body
UpdateTaskStart(r, callers, bodies) ==
    /\ req[r] = Idle
    /\ \E caller \in callers, id \in TaskIdInputs, body \in bodies :
         LET q == Request("updateTask", "find", caller, id, body)
             gate == Gate(q.op, caller)
         IN IF gate # 0 THEN Reply(r, Resp(q, gate)) ELSE Continue(r, q)
    /\ UNCHANGED <<users, projects, tasks, nextProject, nextTask>>

\* const task = await Task.findById(taskId)
UpdateTaskFind(r) ==
    /\ req[r].op = "updateTask" /\ req[r].pc = "find"
    /\ LET q == req[r]
       IN IF ~Exists(tasks, q.id)
          THEN Reply(r, Resp(q, 404))
          ELSE Continue(r, [q EXCEPT !.pc = "update"])
    /\ UNCHANGED <<users, projects, tasks, nextProject, nextTask>>

\* an update that replaces the document by the body
ApplyUpdatesReplace(task, body) ==
    [title |-> body.title, description |-> body.description,
     status |-> body.status, priority |-> body.priority,
     project |-> body.project, createdby |-> body.createdby,
     assignedto |-> body.assignedto]

\* an update that lets the status move forward only
ApplyUpdatesForward(task, body) ==
    [task EXCEPT !.status = IF body.status \in {"in_progress", "done"}
                               /\ task.status # "done"
                            THEN body.status ELSE task.status]

\* the $set Mongoose builds from the body: each field the body carries
\* replaces the stored one, the others stay
ApplyUpdates(task, body) ==
    [title |-> IF body.title = Absent THEN task.title ELSE body.title,
     description |-> IF body.description = Absent THEN task.description
                     ELSE body.description,
     status |-> IF body.status = Absent THEN task.status ELSE body.status,
     priority |-> IF body.priority = Absent THEN task.priority ELSE body.priority,
     project |-> IF body.project = AbsentId THEN task.project ELSE body.project,
     createdby |-> IF body.createdby = Absent THEN task.createdby
                   ELSE body.createdby,
     assignedto |-> IF body.assignedto = Absent THEN task.assignedto
                    ELSE body.assignedto]

\* await Task.findByIdAndUpdate(taskId, updates, {new: true}): null when the
\* task is gone, and the handler answers 200 either way
UpdateTaskUpdate(r) ==
    /\ req[r].op = "updateTask" /\ req[r].pc = "update"
    /\ LET q == req[r]
       IN IF Exists(tasks, q.id)
          THEN LET updatedTask == ApplyUpdates(tasks[q.id], q.body)
               IN /\ tasks' = [tasks EXCEPT ![q.id] = updatedTask]
                  /\ Reply(r, [Resp(q, 200) EXCEPT !.doc = updatedTask])
          ELSE /\ UNCHANGED tasks
               /\ Reply(r, Resp(q, 200))
    /\ UNCHANGED <<users, projects, nextProject, nextTask>>

-----------------------------------------------------------------------------
(* DELETE /tasks/:id *)

DeleteTaskStart(r, callers) ==
    /\ req[r] = Idle
    /\ \E caller \in callers, id \in TaskIdInputs :
         LET q == Request("deleteTask", "find", caller, id, NoBody)
             gate == Gate(q.op, caller)
         IN IF gate # 0 THEN Reply(r, Resp(q, gate)) ELSE Continue(r, q)
    /\ UNCHANGED <<users, projects, tasks, nextProject, nextTask>>

\* const task = await Task.findById(taskId)
DeleteTaskFind(r) ==
    /\ req[r].op = "deleteTask" /\ req[r].pc = "find"
    /\ LET q == req[r]
       IN IF ~Exists(tasks, q.id)
          THEN Reply(r, Resp(q, 404))
          ELSE Continue(r, [q EXCEPT !.pc = "delete"])
    /\ UNCHANGED <<users, projects, tasks, nextProject, nextTask>>

\* await Task.findByIdAndDelete(taskId)
DeleteTaskDelete(r) ==
    /\ req[r].op = "deleteTask" /\ req[r].pc = "delete"
    /\ LET q == req[r]
       IN /\ tasks' = Delete(tasks, q.id)
          /\ Reply(r, Resp(q, 200))
    /\ UNCHANGED <<users, projects, nextProject, nextTask>>

-----------------------------------------------------------------------------
(* POST /signup *)

\* signupSchema.safeParse(req.body)
ValidSignupBody(body) ==
    /\ body.name \notin {Absent, ""}
    /\ body.email \in Emails
    /\ body.password # Absent /\ Len(body.password) >= 6
    /\ body.role \in {Absent, "user", "admin"}

\* cap: the users signup may create in this behaviour
SignupStart(r, bodies, cap) ==
    /\ req[r] = Idle
    /\ Cardinality(DOMAIN users) + InFlight("signup")
          < Cardinality(DOMAIN InitUsers) + cap
    /\ \E body \in bodies :
         LET q == Request("signup", "hash", NoToken, NoId, body)
         IN IF ~ValidSignupBody(body) THEN Reply(r, Resp(q, 400))
            ELSE Continue(r, q)
    /\ UNCHANGED <<users, projects, tasks, nextProject, nextTask>>

\* const hashedPassword = await bcrypt.hash(password, 5)
SignupHash(r) ==
    /\ req[r].op = "signup" /\ req[r].pc = "hash"
    /\ LET q == req[r]
       IN Continue(r, [q EXCEPT !.pc = "findOne",
                                !.doc = [hashedPassword |-> Hash(q.body.password)]])
    /\ UNCHANGED <<users, projects, tasks, nextProject, nextTask>>

\* User.findOne({email}) finds a user
ExistAlready(email) == \E u \in DOMAIN users : users[u].email = email

\* a pre-check that overwrites the user it finds before answering 409
SignupFindOneOverwrite(r) ==
    /\ req[r].op = "signup" /\ req[r].pc = "findOne"
    /\ LET q == req[r]
       IN IF ExistAlready(q.body.email)
          THEN /\ users' = [u \in DOMAIN users |->
                               IF users[u].email = q.body.email
                               THEN [users[u] EXCEPT !.name = q.body.name,
                                        !.password = q.doc.hashedPassword]
                               ELSE users[u]]
               /\ Reply(r, Resp(q, 409))
          ELSE /\ Continue(r, [q EXCEPT !.pc = "create"])
               /\ UNCHANGED users
    /\ UNCHANGED <<projects, tasks, nextProject, nextTask>>

SignupFindOne(r) ==
    /\ req[r].op = "signup" /\ req[r].pc = "findOne"
    /\ LET q == req[r]
       IN IF ExistAlready(q.body.email)
          THEN Reply(r, [Resp(q, 409) EXCEPT
                            !.doc = [error |-> "Email already exists"]])
          ELSE Continue(r, [q EXCEPT !.pc = "create"])
    /\ UNCHANGED <<users, projects, tasks, nextProject, nextTask>>

\* a User.create that ignores the role of the body
NewUserDefaultRole(body, hashedPassword) ==
    [name |-> body.name, email |-> body.email, password |-> hashedPassword,
     role |-> "user"]

\* the document User.create stores: role takes the schema default when the
\* body does not carry it
NewUser(body, hashedPassword) ==
    [name |-> body.name, email |-> body.email, password |-> hashedPassword,
     role |-> IF body.role = Absent THEN "user" ELSE body.role]

\* await User.create({...}); the catch block answers
SignupCreate(r) ==
    /\ req[r].op = "signup" /\ req[r].pc = "create"
    /\ LET q == req[r]
           id == UserIds[Cardinality(DOMAIN users) + 1]
       IN IF UserDuplicateKey(q.body.email)
          THEN /\ Reply(r, [Resp(q, CatchStatus(E11000)) EXCEPT
                                !.doc = [error |-> "Email already exists",
                                         details |-> "This email is already registered"]])
               /\ UNCHANGED users
          ELSE /\ users' = Insert(users, id, NewUser(q.body, q.doc.hashedPassword))
               /\ Reply(r, Resp(q, 201))
    /\ UNCHANGED <<projects, tasks, nextProject, nextTask>>

-----------------------------------------------------------------------------
(* POST /signin *)

\* signinSchema.safeParse(req.body)
ValidSigninBody(body) ==
    /\ body.email \in Emails
    /\ body.password \notin {Absent, ""}

SigninStart(r, bodies) ==
    /\ req[r] = Idle
    /\ \E body \in bodies :
         LET q == Request("signin", "findOne", NoToken, NoId, body)
         IN IF ~ValidSigninBody(body) THEN Reply(r, Resp(q, 400))
            ELSE Continue(r, q)
    /\ UNCHANGED <<users, projects, tasks, nextProject, nextTask>>

\* const user = await User.findOne({email}); the handler keeps the user
SigninFindOne(r) ==
    /\ req[r].op = "signin" /\ req[r].pc = "findOne"
    /\ LET q == req[r]
       IN IF ~ExistAlready(q.body.email)
          THEN Reply(r, Resp(q, 404))
          ELSE LET u == CHOOSE u \in DOMAIN users : users[u].email = q.body.email
               IN Continue(r, [q EXCEPT !.pc = "compare",
                                        !.doc = [id |-> u,
                                                 password |-> users[u].password,
                                                 role |-> users[u].role]])
    /\ UNCHANGED <<users, projects, tasks, nextProject, nextTask>>

\* const passwordMatch = await bcrypt.compare(password, user.password); the
\* token carries jwt.sign({id: user._id.toString(), role: user.role})
SigninCompare(r) ==
    /\ req[r].op = "signin" /\ req[r].pc = "compare"
    /\ LET q == req[r]
       IN IF ~Compare(q.body.password, q.doc.password)
          THEN Reply(r, Resp(q, 401))
          ELSE Reply(r, [Resp(q, 200) EXCEPT
                            !.doc = [id |-> q.doc.id, role |-> q.doc.role]])
    /\ UNCHANGED <<users, projects, tasks, nextProject, nextTask>>

-----------------------------------------------------------------------------
(* The requests clients send *)

Admins == {c \in Tokens : c.role = "admin"}
NonAdmins == {c \in Tokens : c.role # "admin"}

\* createProject bodies
ProjectBodies(titles) ==
    {[NoBody EXCEPT !.title = t, !.description = d] :
        t \in titles, d \in Descriptions}

\* createTask bodies
TaskBodies(titles, projectIds, assignees, statuses, priorities) ==
    {[NoBody EXCEPT !.title = t, !.description = d, !.project = p,
                    !.assignedto = a, !.status = s, !.priority = y] :
        t \in titles, d \in Descriptions, p \in projectIds, a \in assignees,
        s \in statuses, y \in priorities}

\* signup and signin bodies
SignupBodies(names, emails, passwords, roles) ==
    {[NoBody EXCEPT !.name = n, !.email = e, !.password = p, !.role = o] :
        n \in names, e \in emails, p \in passwords, o \in roles}
SigninBodies(emails, passwords) ==
    {[NoBody EXCEPT !.email = e, !.password = p] :
        e \in emails, p \in passwords}

\* updateTask bodies that carry one field
TitleUpdates == {[NoBody EXCEPT !.title = t] : t \in Titles}
ProjectUpdates == {[NoBody EXCEPT !.project = p] : p \in ProjectIdInputs}
AssigneeUpdates(assignees) == {[NoBody EXCEPT !.assignedto = a] : a \in assignees}
StatusUpdates == {[NoBody EXCEPT !.status = s] : s \in StatusEnum}
\* updateTask bodies that carry two fields, and none
TitleStatusUpdates(titles, statuses) ==
    {[NoBody EXCEPT !.title = t, !.status = s] : t \in titles, s \in statuses}
PriorityAssigneeUpdates(priorities, assignees) ==
    {[NoBody EXCEPT !.priority = y, !.assignedto = a] :
        y \in priorities, a \in assignees}
EmptyUpdate == NoBody

-----------------------------------------------------------------------------
(* The API used by one client at a time, from an empty store *)

Init ==
    /\ users = InitUsers
    /\ projects = <<>>
    /\ tasks = <<>>
    /\ nextProject = 0
    /\ nextTask = 0
    /\ req = [r \in Slots |-> Idle]
    /\ last = NoResp

SpecProjectBodies == ProjectBodies({"T1", ""})
SpecTaskBodies ==
    TaskBodies(Titles \cup {""}, ProjectIdInputs, {"u2", NoUser}, {Absent}, {Absent})
SpecUpdates ==
    TitleUpdates \cup ProjectUpdates \cup AssigneeUpdates({"u3", NoUser})

Next ==
    \E r \in {1} :
        \/ CreateProjectStart(r, Callers, SpecProjectBodies, MaxProjects)
        \/ CreateProjectCreate(r)
        \/ GetProjectStart(r, Callers)
        \/ GetProjectFind(r)
        \/ DeleteProjectStart(r, Callers)
        \/ DeleteProjectFind(r)
        \/ DeleteProjectDelete(r)
        \/ CreateTaskStart(r, Callers, SpecTaskBodies, MaxTasks)
        \/ CreateTaskFindProject(r)
        \/ CreateTaskFindUser(r)
        \/ CreateTaskFindOne(r)
        \/ CreateTaskCreate(r)
        \/ GetTaskStart(r, Callers)
        \/ GetTaskFindTask(r)
        \/ GetTaskFindProject(r)
        \/ UpdateTaskStart(r, Callers, SpecUpdates)
        \/ UpdateTaskFind(r)
        \/ UpdateTaskUpdate(r)
        \/ DeleteTaskStart(r, Callers)
        \/ DeleteTaskFind(r)
        \/ DeleteTaskDelete(r)

Spec == Init /\ [][Next]_vars

-----------------------------------------------------------------------------
(* Admins creating projects and tasks concurrently *)

RaceProjectBodies == ProjectBodies(Titles)
RaceTaskBodies == TaskBodies({"T1"}, 1..nextProject, {"u2", "u3"}, {Absent}, {Absent})

NextRace ==
    \E r \in Slots :
        \/ CreateProjectStart(r, Admins, RaceProjectBodies, MaxProjects + 1)
        \/ CreateProjectCreate(r)
        \/ CreateTaskStart(r, Admins, RaceTaskBodies, MaxTasks)
        \/ CreateTaskFindProject(r)
        \/ CreateTaskFindUser(r)
        \/ CreateTaskFindOne(r)
        \/ CreateTaskCreate(r)

SpecRace == Init /\ [][NextRace]_vars

-----------------------------------------------------------------------------
(* Reads of a store that already holds projects and tasks *)

\* Stores the read handlers can meet.  No route adds a member to a project, so
\* projects with members are written to the database directly; project 2 may
\* have been deleted, which leaves the tasks that reference it dangling.
ReadProjects ==
    {(1 :> [title |-> "T1", description |-> "d1", owner |-> o1, members |-> m1])
        @@ p2 :
        o1 \in {"u1", "u2"},
        m1 \in {{}, {"u3"}},
        p2 \in {<<>>}
               \cup {(2 :> [title |-> "T2", description |-> "d1", owner |-> "u1",
                            members |-> m2]) : m2 \in {{"u2"}}}}

ReadTasks ==
    {(1 :> [title |-> "T1", description |-> "d1", status |-> "todo",
            priority |-> "medium", project |-> p, createdby |-> c,
            assignedto |-> a]) @@ t2 :
        p \in {1, 2}, c \in {"u1", "u2"}, a \in {"u2", "u3"},
        t2 \in {<<>>,
                (2 :> [title |-> "T2", description |-> "d1", status |-> "done",
                       priority |-> "high", project |-> 1, createdby |-> "u1",
                       assignedto |-> "u3"])}}

InitRead ==
    /\ users = InitUsers
    /\ projects \in ReadProjects
    /\ tasks \in ReadTasks
    /\ nextProject = 2
    /\ nextTask = 2
    /\ req = [r \in Slots |-> Idle]
    /\ last = NoResp

\* page and limit parameters: not given, not a number, and a number
ReadPages == {NoNumber, [kind |-> "num", n |-> MaxPage]}
ReadLimits == {[kind |-> "text", n |-> 0], [kind |-> "num", n |-> MaxPage]}

NextRead ==
    \E r \in {1} :
        \/ ListProjects(r, Callers, ReadPages, ReadLimits)
        \/ GetProjectStart(r, Callers)
        \/ GetProjectFind(r)
        \/ ListTasks(r, Callers, ReadPages, ReadLimits,
                     {Absent, "done"}, {Absent, "high"}, {AbsentId, 1})
        \/ GetTaskStart(r, Callers)
        \/ GetTaskFindTask(r)
        \/ GetTaskFindProject(r)

SpecRead == InitRead /\ [][NextRead]_vars

-----------------------------------------------------------------------------
(* Accounts: signups and signins running concurrently *)

AuthSignupBodies ==
    SignupBodies({"n1"}, {"a@x.io", "b@x.io", "u2@x.io", NotAnEmail},
                 {"secret1", "short"}, {Absent, "admin"})
AuthSigninBodies ==
    SigninBodies({"a@x.io", "u2@x.io", NotAnEmail}, {"secret1", "secret2", ""})

NextAuth ==
    \E r \in Slots :
        \/ SignupStart(r, AuthSignupBodies, MaxUsers)
        \/ SignupHash(r)
        \/ SignupFindOne(r)
        \/ SignupCreate(r)
        \/ SigninStart(r, AuthSigninBodies)
        \/ SigninFindOne(r)
        \/ SigninCompare(r)

SpecAuth == Init /\ [][NextAuth]_vars

-----------------------------------------------------------------------------
(* An admin updating the tasks of a store that already holds some *)

InitUpdate ==
    /\ users = InitUsers
    /\ projects \in {p \in ReadProjects :
                        /\ DOMAIN p = {1, 2}
                        /\ p[1].owner = "u1" /\ p[1].members = {}}
    /\ tasks \in {t \in ReadTasks : t[1].createdby = "u1"}
    /\ nextProject = 2
    /\ nextTask = 2
    /\ req = [r \in Slots |-> Idle]
    /\ last = NoResp

UpdateBodies ==
    {[NoBody EXCEPT !.title = "T2"], [NoBody EXCEPT !.status = "done"]}
        \cup TitleStatusUpdates({"T2"}, {"done"})
        \cup PriorityAssigneeUpdates({"low"}, {"u3"})
        \cup {EmptyUpdate}

NextUpdate ==
    \E r \in {1} :
        \/ UpdateTaskStart(r, Admins, UpdateBodies)
        \/ UpdateTaskFind(r)
        \/ UpdateTaskUpdate(r)

SpecUpdate == InitUpdate /\ [][NextUpdate]_vars

-----------------------------------------------------------------------------
(* Lists read page by page *)

InitPage ==
    /\ users = InitUsers
    /\ projects \in {p \in ReadProjects : DOMAIN p = {1, 2}}
    /\ tasks \in {t \in ReadTasks : DOMAIN t = {1, 2} /\ t[1].createdby = "u1"}
    /\ nextProject = 2
    /\ nextTask = 2
    /\ req = [r \in Slots |-> Idle]
    /\ last = NoResp

NextPage ==
    \E r \in {1} :
        \/ ListProjects(r, Tokens, QueryNumbers, QueryNumbers)
        \/ ListTasks(r, Tokens, QueryNumbers, QueryNumbers,
                     {Absent}, {Absent}, {AbsentId})

SpecPage == InitPage /\ [][NextPage]_vars

-----------------------------------------------------------------------------
(* Signups and admins' creations running concurrently *)

InsertSignupBodies == SignupBodies({"n1"}, {"a@x.io"}, {"secret1"}, {Absent})
InsertProjectBodies == ProjectBodies({"T1"})
InsertTaskBodies == TaskBodies({"T1"}, 1..nextProject, {"u2"}, {Absent}, {Absent})

NextInsert ==
    \E r \in Slots :
        \/ SignupStart(r, InsertSignupBodies, MaxUsers)
        \/ SignupHash(r)
        \/ SignupFindOne(r)
        \/ SignupCreate(r)
        \/ CreateProjectStart(r, Admins, InsertProjectBodies, MaxProjects + 1)
        \/ CreateProjectCreate(r)
        \/ CreateTaskStart(r, Admins, InsertTaskBodies, MaxTasks)
        \/ CreateTaskFindProject(r)
        \/ CreateTaskFindUser(r)
        \/ CreateTaskFindOne(r)
        \/ CreateTaskCreate(r)

SpecInsert == Init /\ [][NextInsert]_vars

-----------------------------------------------------------------------------
(* An admin creating and updating tasks while another user reads them *)

\* a text that is in neither enum
OutOfEnum == "urgent"

\* updateTask bodies that carry a status, or a priority
StatusUpdatesOf(statuses) == {[NoBody EXCEPT !.status = s] : s \in statuses}
PriorityUpdates(priorities) == {[NoBody EXCEPT !.priority = y] : y \in priorities}

InitEnum ==
    /\ users = InitUsers
    /\ projects = (1 :> [title |-> "T1", description |-> "d1", owner |-> "u1",
                         members |-> {}])
    /\ tasks = <<>>
    /\ nextProject = 1
    /\ nextTask = 0
    /\ req = [r \in Slots |-> Idle]
    /\ last = NoResp

EnumTaskBodies ==
    TaskBodies({"T1"}, {1}, {"u2"}, {Absent, "done", OutOfEnum},
               {Absent, "high", OutOfEnum})
EnumUpdates ==
    StatusUpdatesOf(StatusEnum \cup {OutOfEnum})
        \cup PriorityUpdates({"low", OutOfEnum})

NextEnum ==
    \/ \E r \in {1} :
        \/ CreateTaskStart(r, Admins, EnumTaskBodies, MaxTasks - 1)
        \/ CreateTaskFindProject(r)
        \/ CreateTaskFindUser(r)
        \/ CreateTaskFindOne(r)
        \/ CreateTaskCreate(r)
        \/ UpdateTaskStart(r, Admins, EnumUpdates)
        \/ UpdateTaskFind(r)
        \/ UpdateTaskUpdate(r)
    \/ \E r \in {2} :
        \/ GetTaskStart(r, {Token("u3")})
        \/ GetTaskFindTask(r)
        \/ GetTaskFindProject(r)

SpecEnum == InitEnum /\ [][NextEnum]_vars

-----------------------------------------------------------------------------
(* The whole API used by one client at a time, accounts included *)

ApiSignupBodies ==
    SignupBodies({"n1"}, {"a@x.io", "u2@x.io", NotAnEmail}, {"secret1"},
                 {Absent, "admin"})
ApiSigninBodies == SigninBodies({"a@x.io", "b@x.io"}, {"secret1", "secret2"})
ApiProjectBodies == ProjectBodies({"T1", ""})
ApiTaskBodies == TaskBodies({"T1"}, ProjectIdInputs, {"u2", NoUser}, {Absent}, {Absent})
\* updateTask bodies that carry a title, or the creator
ApiUpdates == {[NoBody EXCEPT !.title = "T2"], [NoBody EXCEPT !.createdby = "u2"]}
ApiPages == {NoNumber}
ApiLimits == {[kind |-> "num", n |-> MaxPage]}

NextApi ==
    \E r \in {1} :
        \/ SignupStart(r, ApiSignupBodies, MaxUsers - 1)
        \/ SignupHash(r)
        \/ SignupFindOne(r)
        \/ SignupCreate(r)
        \/ SigninStart(r, ApiSigninBodies)
        \/ SigninFindOne(r)
        \/ SigninCompare(r)
        \/ CreateProjectStart(r, Callers, ApiProjectBodies, MaxProjects)
        \/ CreateProjectCreate(r)
        \/ ListProjects(r, Callers, ApiPages, ApiLimits)
        \/ GetProjectStart(r, Callers)
        \/ GetProjectFind(r)
        \/ DeleteProjectStart(r, Callers)
        \/ DeleteProjectFind(r)
        \/ DeleteProjectDelete(r)
        \/ CreateTaskStart(r, Callers, ApiTaskBodies, MaxTasks - 1)
        \/ CreateTaskFindProject(r)
        \/ CreateTaskFindUser(r)
        \/ CreateTaskFindOne(r)
        \/ CreateTaskCreate(r)
        \/ ListTasks(r, Callers, ApiPages, ApiLimits, {Absent}, {Absent},
                     {AbsentId, 1})
        \/ GetTaskStart(r, Callers)
        \/ GetTaskFindTask(r)
        \/ GetTaskFindProject(r)
        \/ UpdateTaskStart(r, Callers, ApiUpdates)
        \/ UpdateTaskFind(r)
        \/ UpdateTaskUpdate(r)
        \/ DeleteTaskStart(r, Callers)
        \/ DeleteTaskFind(r)
        \/ DeleteTaskDelete(r)

SpecApi == Init /\ [][NextApi]_vars

-----------------------------------------------------------------------------
(* Admins updating and deleting the same tasks concurrently *)

WriteUpdates == {[NoBody EXCEPT !.title = "T2"], [NoBody EXCEPT !.status = "done"]}

NextWrite ==
    \E r \in Slots :
        \/ UpdateTaskStart(r, Admins, WriteUpdates)
        \/ UpdateTaskFind(r)
        \/ UpdateTaskUpdate(r)
        \/ DeleteTaskStart(r, Admins)
        \/ DeleteTaskFind(r)
        \/ DeleteTaskDelete(r)

SpecWrite == InitUpdate /\ [][NextWrite]_vars

-----------------------------------------------------------------------------
(* Properties *)

\* the caller of the response presented a valid token of a non-admin
NonAdminCaller(resp) == resp.caller # NoToken /\ resp.caller.role # "admin"
AdminCaller(resp) == resp.caller # NoToken /\ resp.caller.role = "admin"

\* C1: a createProject, deleteProject, createTask, updateTask or deleteTask
\* request without a valid token is answered 401, whatever its body, and one
\* with the token of a non-admin is answered 403; neither changes a user,
\* project or task record.
AdminOnlyStep ==
    last'.op \in MutatingOps =>
        /\ (last'.caller = NoToken => last'.status = 401 /\ store' = store)
        /\ (NonAdminCaller(last') => last'.status = 403 /\ store' = store)
AdminOnlyMutations == [][AdminOnlyStep]_vars

\* a non-admin's createTask with a body the schema rejects is answered 403 while
\* the store holds a project
AdminOnlyMutationsWitness ==
    /\ last.op = "createTask"
    /\ NonAdminCaller(last)
    /\ last.status = 403
    /\ ~ValidTaskBody(last.body)
    /\ projects # <<>>

\* C2: no project listed to a non-admin has the caller neither as its owner
\* nor among its members, whatever page and limit were asked for.
ListProjectsVisibility ==
    (last.op = "listProjects" /\ NonAdminCaller(last)) =>
        \A i \in DOMAIN last.items :
            /\ last.items[i] \in DOMAIN projects
            /\ \/ projects[last.items[i]].owner = last.caller.id
               \/ last.caller.id \in projects[last.items[i]].members

\* a non-admin is listed a project it is a member of while the store holds a
\* project it must not see
ListProjectsVisibilityWitness ==
    /\ last.op = "listProjects"
    /\ NonAdminCaller(last)
    /\ \E i \in DOMAIN last.items :
          /\ last.caller.id \in projects[last.items[i]].members
          /\ projects[last.items[i]].owner # last.caller.id
    /\ \E p \in DOMAIN projects :
          /\ projects[p].owner # last.caller.id
          /\ last.caller.id \notin projects[p].members

\* the caller is the assignee of task t or a member of its project
TaskVisibleTo(id, t) ==
    \/ tasks[t].assignedto = id
    \/ /\ tasks[t].project \in DOMAIN projects
       /\ id \in projects[tasks[t].project].members

\* C3: no task listed to a non-admin is one that is not assigned to the
\* caller and whose project does not have the caller among its members,
\* whatever page, limit and status/priority/project filters were asked for.
ListTasksVisibility ==
    (last.op = "listTasks" /\ NonAdminCaller(last)) =>
        \A i \in DOMAIN last.items :
            /\ last.items[i] \in DOMAIN tasks
            /\ TaskVisibleTo(last.caller.id, last.items[i])

\* a non-admin filters by project and is listed a task of it, while the project
\* has another task the caller must not see
ListTasksVisibilityWitness ==
    /\ last.op = "listTasks"
    /\ NonAdminCaller(last)
    /\ last.body.project # AbsentId
    /\ last.items # <<>>
    /\ \E t \in DOMAIN tasks :
          /\ tasks[t].project = last.body.project
          /\ ~TaskVisibleTo(last.caller.id, t)

\* a stored project has this title and this owner
ProjectPairStored(title, owner) ==
    \E p \in DOMAIN projects :
        projects[p].title = title /\ projects[p].owner = owner

ProjectPairsUnique ==
    \A p, q \in DOMAIN projects :
        (projects[p].title = projects[q].title
            /\ projects[p].owner = projects[q].owner) => p = q

\* an admin's createProject with a valid body is answered 201 exactly when no
\* stored project has its (title, owner) pair at the insert, and is answered
\* 409 and stores nothing otherwise
CreateProjectStep ==
    last'.op = "createProject" =>
        /\ last'.status \in {201, 409}
        /\ last'.status = 201 <=> ~ProjectPairStored(last'.body.title, last'.caller.id)
        /\ last'.status = 409 => projects' = projects

\* C4: of two createProject requests of one admin with the same title, however
\* their steps interleave, the one that inserts second is answered 409, and the
\* store never holds two projects with the same (title, owner) pair.
ConcurrentCreateProject == []ProjectPairsUnique /\ [][CreateProjectStep]_vars

\* one createProject is answered 201 while another with the same title and
\* owner has passed validation and waits for its insert
ConcurrentCreateProjectWitness ==
    /\ last.op = "createProject"
    /\ last.status = 201
    /\ \E r \in Slots :
          /\ req[r].op = "createProject"
          /\ req[r].pc = "create"
          /\ req[r].body.title = last.body.title
          /\ req[r].caller = last.caller

\* a stored task has the (title, project, assignedto) triple of the body
TripleStored(body) ==
    \E t \in DOMAIN tasks :
        /\ tasks[t].title = body.title
        /\ tasks[t].project = body.project
        /\ tasks[t].assignedto = body.assignedto

\* an admin's createTask with a valid body whose triple a stored task has;
\* the stored task was made by a createTask, so its assignee is a stored user
\* (no route removes a user), unlike a triple that an updateTask wrote
RepeatedCreateTask ==
    /\ last'.op = "createTask"
    /\ AdminCaller(last')
    /\ ValidTaskBody(last'.body)
    /\ TripleStored(last'.body)
    /\ Exists(users, last'.body.assignedto)

\* C5 as stated: a createTask whose triple a stored task has is answered 409
\* and adds no task.
SecondCreateTaskConflictAlways ==
    [][RepeatedCreateTask => (last'.status = 409 /\ tasks' = tasks)]_vars

\* C5: a createTask by an admin whose triple a stored task has, and whose
\* project still exists, is answered 409 and adds no task; when the project
\* has been deleted it is answered 404 and adds no task.
SecondCreateTaskConflict ==
    [][RepeatedCreateTask =>
          /\ tasks' = tasks
          /\ last'.status = IF Exists(projects, last'.body.project) THEN 409
                            ELSE 404]_vars

\* a createTask is answered 409 and the task with its triple is in the store
SecondCreateTaskConflictWitness ==
    /\ last.op = "createTask"
    /\ last.status = 409
    /\ TripleStored(last.body)
    /\ Exists(projects, last.body.project)

\* C6: a createTask is answered 201 only if no stored task has its triple at
\* the insert, so that of two concurrent requests with the same triple that
\* both passed the pre-check at most one is answered 201.
ConcurrentCreateTaskGuard ==
    [][(last'.op = "createTask" /\ last'.status = 201)
          => ~TripleStored(last'.body)]_vars

\* C7: no two distinct tasks share the same (title, project, assignedto)
\* triple.
TaskTriplesUnique ==
    \A t, u \in DOMAIN tasks :
        (/\ tasks[t].title = tasks[u].title
         /\ tasks[t].project = tasks[u].project
         /\ tasks[t].assignedto = tasks[u].assignedto) => t = u

\* the response answers an authenticated getTask on a stored task whose
\* project is not in the store
GetTaskOfDeletedProject ==
    /\ last.op = "getTask"
    /\ last.caller # NoToken
    /\ Exists(tasks, last.id)
    /\ ~Exists(projects, tasks[last.id].project)

\* C8 as stated: getTask on a stored task whose project has been deleted is
\* answered 404 for every caller.
GetTaskDeletedProjectAlways404 ==
    GetTaskOfDeletedProject => last.status = 404

\* C8: getTask on a stored task whose project has been deleted is answered
\* 404 for a caller that is neither admin nor the assignee, never 403; an
\* admin and the assignee are answered 200 with the task.
GetTaskDeletedProject ==
    GetTaskOfDeletedProject =>
        IF AdminCaller(last) \/ tasks[last.id].assignedto = last.caller.id
        THEN last.status = 200 /\ last.doc = tasks[last.id]
        ELSE last.status = 404

\* a user that is not the assignee is answered 404 for a task that is still
\* stored after its project was deleted
GetTaskDeletedProjectWitness ==
    /\ GetTaskOfDeletedProject
    /\ NonAdminCaller(last)
    /\ tasks[last.id].assignedto # last.caller.id
    /\ last.status = 404
    /\ tasks[last.id].project \in 1..nextProject

\* C9: getProject is answered 404 when no project has the id; otherwise 200
\* with the project when the caller is admin, the owner or a member, and 403
\* in every other case.
GetProjectAccess ==
    (last.op = "getProject" /\ last.caller # NoToken) =>
        IF ~Exists(projects, last.id) THEN last.status = 404
        ELSE IF \/ AdminCaller(last)
                \/ projects[last.id].owner = last.caller.id
                \/ last.caller.id \in projects[last.id].members
        THEN last.status = 200 /\ last.doc = projects[last.id]
        ELSE last.status = 403

\* a member that is neither admin nor the owner is answered 200
GetProjectAccessWitness ==
    /\ last.op = "getProject"
    /\ NonAdminCaller(last)
    /\ Exists(projects, last.id)
    /\ projects[last.id].owner # last.caller.id
    /\ last.caller.id \in projects[last.id].members
    /\ last.status = 200

\* C10: getTask on a stored task whose project is stored is answered 200 with
\* the task when the caller is admin, the assignee or a member of the project,
\* and 403 otherwise, whoever owns the project or created the task.
GetTaskAccess ==
    (/\ last.op = "getTask"
     /\ last.caller # NoToken
     /\ Exists(tasks, last.id)
     /\ Exists(projects, tasks[last.id].project)) =>
        IF \/ AdminCaller(last)
           \/ tasks[last.id].assignedto = last.caller.id
           \/ last.caller.id \in projects[tasks[last.id].project].members
        THEN last.status = 200 /\ last.doc = tasks[last.id]
        ELSE last.status = 403

\* the owner of the project, who also created the task, is answered 403
GetTaskAccessWitness ==
    /\ last.op = "getTask"
    /\ Exists(tasks, last.id)
    /\ Exists(projects, tasks[last.id].project)
    /\ projects[tasks[last.id].project].owner = last.caller.id
    /\ tasks[last.id].createdby = last.caller.id
    /\ last.status = 403

\* a createProject answered 201 adds one project, with the title and
\* description submitted and the caller as owner
CreateProjectStores ==
    (last'.op = "createProject" /\ last'.status = 201) =>
        /\ Cardinality(DOMAIN projects' \ DOMAIN projects) = 1
        /\ \A p \in DOMAIN projects' \ DOMAIN projects :
              /\ projects'[p].title = last'.body.title
              /\ projects'[p].description = last'.body.description
              /\ projects'[p].owner = last'.caller.id

\* no step changes a project that stays in the store
ProjectsKept ==
    \A p \in DOMAIN projects \cap DOMAIN projects' : projects'[p] = projects[p]

\* a getProject answered 200 carries the stored project
GetProjectReturnsStored ==
    (last.op = "getProject" /\ last.status = 200) =>
        /\ last.id \in DOMAIN projects
        /\ last.doc = projects[last.id]

\* C11: createProject by an admin followed by getProject of the created
\* project by the same admin returns a record with the title and description
\* submitted and the caller as owner: the project is stored so, no later step
\* alters it, and getProject returns what is stored.
CreateGetProjectRoundTrip ==
    /\ [][CreateProjectStores /\ ProjectsKept]_vars
    /\ []GetProjectReturnsStored

\* the admin that created a project reads it back
CreateGetProjectRoundTripWitness ==
    /\ last.op = "getProject"
    /\ last.status = 200
    /\ AdminCaller(last)
    /\ last.id \in 1..nextProject
    /\ last.doc.owner = last.caller.id
    /\ last.doc.title \in Titles

\* a stored user has this email
EmailStored(email) == \E u \in DOMAIN users : users[u].email = email

EmailsUnique ==
    \A u, v \in DOMAIN users : users[u].email = users[v].email => u = v

\* a signup with a valid body is answered 201, adding one user, exactly when
\* no stored user has its email at that step, and is answered 409 without a
\* write otherwise
SignupStep ==
    (last'.op = "signup" /\ ValidSignupBody(last'.body)) =>
        /\ last'.status \in {201, 409}
        /\ last'.status = 409 <=> EmailStored(last'.body.email)
        /\ last'.status = 409 => users' = users
        /\ last'.status = 201 =>
              Cardinality(DOMAIN users') = Cardinality(DOMAIN users) + 1

\* C12: no two users ever share an email; a signup whose email is stored is
\* answered 409 and creates no user, and of concurrent signups with one email
\* the one that inserts second is answered 409, not 500.
SignupEmailUnique == []EmailsUnique /\ [][SignupStep]_vars

\* one signup is answered 201 while another with the same email has passed
\* its pre-check and waits for its insert
SignupEmailUniqueWitness ==
    /\ last.op = "signup"
    /\ last.status = 201
    /\ \E r \in Slots :
          /\ req[r].op = "signup"
          /\ req[r].pc = "create"
          /\ req[r].body.email = last.body.email

\* the step is one of a signin request
SigninActs ==
    \/ last'.op = "signin"
    \/ \E r \in Slots :
          /\ req'[r] # req[r]
          /\ req[r].op = "signin" \/ req'[r].op = "signin"

\* C13: a signin with a valid body is answered 404 when no user has the email,
\* 401 when the user with the email has another password, and otherwise 200
\* with a token whose id and role are those of the stored user; no signin
\* step changes the store.
SigninStep ==
    /\ SigninActs => store' = store
    /\ (last'.op = "signin" /\ ValidSigninBody(last'.body)) =>
             IF ~EmailStored(last'.body.email) THEN last'.status = 404
             ELSE \E u \in DOMAIN users :
                    /\ users[u].email = last'.body.email
                    /\ IF users[u].password # Hash(last'.body.password)
                       THEN last'.status = 401
                       ELSE /\ last'.status = 200
                            /\ last'.doc = [id |-> u, role |-> users[u].role]
SigninOutcome == [][SigninStep]_vars

\* a user created by signup with role admin signs in and gets an admin token
SigninOutcomeWitness ==
    /\ last.op = "signin"
    /\ last.status = 200
    /\ last.doc.id \notin DOMAIN InitUsers
    /\ last.doc.role = "admin"

\* C14: a createTask by an admin with a valid body is answered 404 and stores
\* nothing when its project is not stored, and likewise when its assignee is
\* not stored; the project is checked first, then the assignee, then the
\* duplicate, so a missing project is the one reported when the assignee is
\* missing too, and 404 wins over 409.
CreateTaskCheckOrder ==
    [][(last'.op = "createTask" /\ AdminCaller(last')
            /\ ValidTaskBody(last'.body)) =>
          IF ~Exists(projects, last'.body.project)
          THEN /\ last'.status = 404
               /\ last'.doc = [error |-> "Project not available"]
               /\ store' = store
          ELSE IF ~Exists(users, last'.body.assignedto)
          THEN /\ last'.status = 404
               /\ last'.doc
                     = [error |-> "user not available to which task assigned to"]
               /\ store' = store
          ELSE IF TripleStored(last'.body)
          THEN last'.status = 409 /\ store' = store
          ELSE last'.status = 201]_vars

\* a createTask whose project and assignee are both missing, and whose triple
\* a stored task has, is answered 404 for the project
CreateTaskCheckOrderWitness ==
    /\ last.op = "createTask"
    /\ last.status = 404
    /\ last.doc = [error |-> "Project not available"]
    /\ ~Exists(users, last.body.assignedto)
    /\ TripleStored(last.body)

\* the tasks the step writes: those it adds and those it changes
WrittenTasks ==
    {t \in DOMAIN tasks' : t \notin DOMAIN tasks \/ tasks'[t] # tasks[t]}

\* C15: at every write of a task, by createTask or by updateTask, the project
\* of the written task is a stored project and its assignedto a stored user.
TaskReferencesExistAtWrite ==
    [][\A t \in WrittenTasks :
          /\ Exists(projects, tasks'[t].project)
          /\ Exists(users, tasks'[t].assignedto)]_vars

\* the value a field has after a merge of the body into the task
Merged(carried, supplied, old) == IF carried THEN supplied ELSE old

\* C16: an updateTask answered 200 for a stored task sets, in that task only,
\* each field the body carries to the value supplied, leaves the fields the
\* body does not carry and every other task as they were, and returns the task
\* as it is after the update.
UpdateTaskPartialMerge ==
    [][(last'.op = "updateTask" /\ last'.status = 200
            /\ last'.id \in DOMAIN tasks) =>
          LET b == last'.body
              old == tasks[last'.id]
          IN /\ DOMAIN tasks' = DOMAIN tasks
             /\ \A t \in DOMAIN tasks \ {last'.id} : tasks'[t] = tasks[t]
             /\ tasks'[last'.id] =
                  [title |-> Merged(b.title # Absent, b.title, old.title),
                   description |-> Merged(b.description # Absent, b.description,
                                          old.description),
                   status |-> Merged(b.status # Absent, b.status, old.status),
                   priority |-> Merged(b.priority # Absent, b.priority,
                                       old.priority),
                   project |-> Merged(b.project # AbsentId, b.project, old.project),
                   createdby |-> Merged(b.createdby # Absent, b.createdby,
                                        old.createdby),
                   assignedto |-> Merged(b.assignedto # Absent, b.assignedto,
                                         old.assignedto)]
             /\ last'.doc = tasks'[last'.id]
             /\ users' = users /\ projects' = projects]_vars

\* an update that carries a title and a status is answered with the task, whose
\* other fields are those it was created with, while another task is stored
UpdateTaskPartialMergeWitness ==
    /\ last.op = "updateTask"
    /\ last.status = 200
    /\ last.body.title = "T2" /\ last.body.status = "done"
    /\ last.doc.title = "T2" /\ last.doc.status = "done"
    /\ last.doc.priority = "medium"
    /\ last.doc.assignedto = tasks[last.id].assignedto
    /\ Cardinality(DOMAIN tasks) = 2

\* the records the list request of the response matches
Matching(resp) ==
    IF resp.op = "listProjects" THEN ProjectFilter(resp.caller)
    ELSE TaskFilter(resp.caller, resp.body.status, resp.body.priority,
                    resp.body.project)

\* the number a page or limit parameter stands for: its digits when it is a
\* number of at least 1, and 1 when it is absent or not a number
AskedNumber(q, parsed) ==
    /\ (q.kind = "num" /\ q.n >= 1) => parsed = q.n
    /\ q.kind \in {"absent", "text"} => parsed = 1

\* how many of the matching records come before x
Offset(M, x) == Cardinality({y \in M : y < x})

MeetsFilters(t, query) ==
    /\ query.status # Absent => tasks[t].status = query.status
    /\ query.priority # Absent => tasks[t].priority = query.priority
    /\ query.project # AbsentId => tasks[t].project = query.project

\* the response lists exactly the records of All that fall on its page, so
\* that over all pages each record of All, and nothing else, is returned
ListsExactly(resp, All) ==
    /\ resp.total = Cardinality(All)
    /\ \A i \in DOMAIN resp.items : resp.items[i] \in All
    /\ \A x \in All :
          (\E i \in DOMAIN resp.items : resp.items[i] = x)
              <=> /\ Offset(All, x) >= (resp.page - 1) * resp.limit
                  /\ Offset(All, x) <= resp.page * resp.limit - 1

\* C18: for an admin the records reachable over the pages of listProjects are
\* all stored projects, and over the pages of listTasks all stored tasks that
\* meet the status, priority and project filters given, whoever owns them, is
\* assigned to them or is a member.
AdminListsAll ==
    (last.op \in {"listProjects", "listTasks"} /\ last.status = 200
        /\ AdminCaller(last)) =>
        ListsExactly(last,
                     IF last.op = "listProjects" THEN DOMAIN projects
                     ELSE {t \in DOMAIN tasks : MeetsFilters(t, last.body)})

\* an admin filtering by priority is listed a task that is assigned to someone
\* else, in a project another user owns, while a task that does not meet the
\* filter is stored
AdminListsAllWitness ==
    /\ last.op = "listTasks"
    /\ last.status = 200
    /\ AdminCaller(last)
    /\ last.body.priority = "high"
    /\ \E i \in DOMAIN last.items :
          /\ tasks[last.items[i]].assignedto # last.caller.id
          /\ tasks[last.items[i]].project \in DOMAIN projects
          /\ projects[tasks[last.items[i]].project].owner # last.caller.id
    /\ \E t \in DOMAIN tasks : ~MeetsFilters(t, last.body)

\* C19: for a non-admin the tasks reachable over the pages of listTasks are
\* exactly the tasks that are assigned to the caller or belong to a project the
\* caller is a member of, and that meet every filter given; a project filter
\* naming a project the caller is not a member of leaves the caller's own
\* tasks in that project.
NonAdminListsTasks ==
    (last.op = "listTasks" /\ last.status = 200 /\ NonAdminCaller(last)) =>
        ListsExactly(last,
                     {t \in DOMAIN tasks :
                         /\ TaskVisibleTo(last.caller.id, t)
                         /\ MeetsFilters(t, last.body)})

\* a non-member filters by a project that holds two tasks and is listed the one
\* assigned to it, and no other
NonAdminListsTasksWitness ==
    /\ last.op = "listTasks"
    /\ last.status = 200
    /\ NonAdminCaller(last)
    /\ last.body.project \in DOMAIN projects
    /\ last.caller.id \notin projects[last.body.project].members
    /\ last.total = 1
    /\ Len(last.items) = 1
    /\ tasks[last.items[1]].assignedto = last.caller.id
    /\ \E t \in DOMAIN tasks :
          /\ tasks[t].project = last.body.project
          /\ tasks[t].assignedto # last.caller.id

\* the insert of the request fails with a duplicate key
DuplicateKeyRaised(q) ==
    CASE q.op = "signup" -> UserDuplicateKey(q.body.email)
      [] q.op = "createProject" -> ProjectDuplicateKey(q.body.title, q.caller.id)
      [] q.op = "createTask" ->
            TaskDuplicateKey(q.body.title, q.body.project, q.body.assignedto)
      [] OTHER -> FALSE

\* C20: when the insert of a signup, createProject or createTask fails with a
\* duplicate key, the request is answered 409 and stores nothing, and no
\* insert step is answered 500; the insert comes after the handler's own
\* pre-check where it has one.
DuplicateKeyIsConflict ==
    [][\A r \in Slots :
          (/\ req[r].op \in {"signup", "createProject", "createTask"}
           /\ req[r].pc = "create"
           /\ req'[r] = Idle) =>
              /\ last'.status # 500
              /\ DuplicateKeyRaised(req[r]) =>
                    (last'.status = 409 /\ store' = store)]_vars

\* a signup whose pre-check found no user with the email is answered 409 by
\* the catch block
DuplicateKeyIsConflictWitness ==
    /\ last.op = "signup"
    /\ last.status = 409
    /\ last.doc = [error |-> "Email already exists",
                   details |-> "This email is already registered"]

\* C21: every stored task's status is one of todo, in_progress, done and its
\* priority one of low, medium, high.
TaskEnums ==
    \A t \in DOMAIN tasks :
        /\ tasks[t].status \in StatusEnum
        /\ tasks[t].priority \in PriorityEnum

\* C22: an admin's updateTask that carries a status of the enum, on a task
\* that is stored when the request is answered, is answered 200 and the task
\* then has that status, whatever its status was.
AnyStatusTransition ==
    [][(/\ last'.op = "updateTask"
        /\ AdminCaller(last')
        /\ last'.body.status \in StatusEnum
        /\ Exists(tasks, last'.id))
          => /\ last'.status = 200
             /\ Exists(tasks', last'.id)
             /\ tasks'[last'.id].status = last'.body.status
             /\ last'.doc = tasks'[last'.id]]_vars

\* an updateTask to todo is answered 200 while a getTask handler still holds
\* the task as it read it, with status done
AnyStatusTransitionWitness ==
    /\ last.op = "updateTask"
    /\ last.status = 200
    /\ last.body.status = "todo"
    /\ Exists(tasks, last.id)
    /\ tasks[last.id].status = "todo"
    /\ \E r \in Slots :
          /\ req[r].op = "getTask" /\ req[r].pc = "findProject"
          /\ req[r].id = last.id
          /\ req[r].doc.status = "done"

\* the collection a deleteProject, deleteTask or updateTask looks its id up in
Looked(op) == IF op = "deleteProject" THEN projects ELSE tasks

\* coll2 is coll without the record id, every other record as it was
RemovedOnly(coll, coll2, id) ==
    /\ id \in DOMAIN coll
    /\ DOMAIN coll2 = DOMAIN coll \ {id}
    /\ \A i \in DOMAIN coll2 : coll2[i] = coll[i]

NotFoundStep ==
    (/\ last'.op \in {"deleteProject", "deleteTask", "updateTask"}
     /\ AdminCaller(last')
     /\ ~Exists(Looked(last'.op), last'.id))
        => last'.status = 404 /\ store' = store

DeleteStep ==
    /\ (last'.op = "deleteProject" /\ last'.status = 200)
          => /\ RemovedOnly(projects, projects', last'.id)
             /\ tasks' = tasks /\ users' = users
    /\ (last'.op = "deleteTask" /\ last'.status = 200)
          => /\ RemovedOnly(tasks, tasks', last'.id)
             /\ projects' = projects /\ users' = users

\* C23: a deleteProject, deleteTask or updateTask by an admin whose id no
\* record has is answered 404 and changes no record; a deleteProject or
\* deleteTask answered 200 removes the record with that id and changes no other
\* project, task or user.
DeleteAndNotFound == [][NotFoundStep /\ DeleteStep]_vars

\* a deleteTask is answered 200, its task is gone, and the other task and the
\* project are still stored
DeleteAndNotFoundWitness ==
    /\ last.op = "deleteTask"
    /\ last.status = 200
    /\ ~Exists(tasks, last.id)
    /\ tasks # <<>>
    /\ projects # <<>>

\* a signup answered 201 has stored one new user with the email of the body
\* and the role of the body, or user when the body carries none
SignupStoresRole ==
    (last'.op = "signup" /\ last'.status = 201) =>
        \E u \in DOMAIN users' \ DOMAIN users :
            /\ DOMAIN users' = DOMAIN users \cup {u}
            /\ users'[u].email = last'.body.email
            /\ users'[u].role = IF last'.body.role = Absent THEN "user"
                                ELSE last'.body.role

\* the token of a signin answered 200 carries the id and the stored role of
\* the user with the email of the body
SigninTokenRole ==
    (last.op = "signin" /\ last.status = 200) =>
        \E u \in DOMAIN users :
            /\ users[u].email = last.body.email
            /\ last.doc = [id |-> u, role |-> users[u].role]
            /\ last.doc = Token(u)

\* no admin-only route rejects a token whose role is admin
AdminTokenPasses ==
    (last.op \in MutatingOps /\ AdminCaller(last)) => last.status \notin {401, 403}

\* C24: signup takes no token and stores the role of the body, or user when
\* none is given; a signin of that user issues a token with the stored role,
\* and a token with role admin is rejected by no admin-only route.
SignupRoleIsTrusted ==
    /\ [][SignupStoresRole]_vars
    /\ [](SigninTokenRole /\ AdminTokenPasses)

\* a createProject is answered 201 to the token of a user who signed up with
\* role admin
SignupRoleIsTrustedWitness ==
    /\ last.op = "createProject"
    /\ last.status = 201
    /\ last.caller.id \notin DOMAIN InitUsers
    /\ last.caller.id \in DOMAIN users
    /\ users[last.caller.id].role = "admin"
    /\ last.caller = Token(last.caller.id)

\* the records a client receives when it reads every page of a list of the
\* matching records, limit records to the page
ListedOverPages(matching, limit) ==
    {x \in matching :
        \E page \in 1..CeilDiv(Cardinality(matching), limit) :
            LET items == SkipLimit(matching, (page - 1) * limit, limit)
            IN \E i \in DOMAIN items : items[i] = x}

\* the records the pages of a non-admin's list hold, for every page size
ListedProjects(caller, id) ==
    \A n \in 1..MaxPage : id \in ListedOverPages(ProjectFilter(caller), n)
ListedTasks(caller, id) ==
    \A n \in 1..MaxPage :
        id \in ListedOverPages(TaskFilter(caller, Absent, Absent, AbsentId), n)
NotListedProjects(caller, id) ==
    \A n \in 1..MaxPage : id \notin ListedOverPages(ProjectFilter(caller), n)
NotListedTasks(caller, id) ==
    \A n \in 1..MaxPage :
        id \notin ListedOverPages(TaskFilter(caller, Absent, Absent, AbsentId), n)

\* C25: in a store that does not change, a getProject by a non-admin is
\* answered 200 exactly when the project is on a page of the caller's
\* listProjects, and a getTask by a non-admin is answered 200 exactly when the
\* task is on a page of the caller's listTasks without filters.
ListAndReadAgree ==
    /\ (last.op = "getProject" /\ NonAdminCaller(last)) =>
          IF last.status = 200 THEN ListedProjects(last.caller, last.id)
          ELSE NotListedProjects(last.caller, last.id)
    /\ (last.op = "getTask" /\ NonAdminCaller(last)) =>
          IF last.status = 200 THEN ListedTasks(last.caller, last.id)
          ELSE NotListedTasks(last.caller, last.id)
    /\ (last.op = "listProjects" /\ NonAdminCaller(last)) =>
          \A i \in DOMAIN last.items :
              GetProjectStatus(last.caller, last.items[i]) = 200

\* a non-admin that is not the assignee is answered 200 by getTask for a task
\* of a project it is a member of, and another stored task is not visible to it
ListAndReadAgreeWitness ==
    /\ last.op = "getTask"
    /\ NonAdminCaller(last)
    /\ last.status = 200
    /\ tasks[last.id].assignedto # last.caller.id
    /\ ListedTasks(last.caller, last.id)
    /\ \E t \in DOMAIN tasks : NotListedTasks(last.caller, t)

\* a step leaves every project that stays stored, and every user, as it was
ProjectsUnchangedStep ==
    \A p \in DOMAIN projects \cap DOMAIN projects' : projects'[p] = projects[p]
UsersUnchangedStep ==
    \A u \in DOMAIN users : u \in DOMAIN users' /\ users'[u] = users[u]

MembersEmpty == \A p \in DOMAIN projects : projects[p].members = {}

\* C26: no step of any route changes the title, description, owner or members
\* of a stored project, and none changes or removes a stored user; every
\* project of a store built through the routes alone has no members.
ProjectsAndUsersImmutable ==
    /\ [][ProjectsUnchangedStep /\ UsersUnchangedStep]_vars
    /\ []MembersEmpty

\* a project is stored, without members, after a signup added a user and an
\* updateTask changed a task
ProjectsAndUsersImmutableWitness ==
    /\ last.op = "updateTask"
    /\ last.status = 200
    /\ projects # <<>>
    /\ MembersEmpty
    /\ DOMAIN users # DOMAIN InitUsers
    /\ \A u \in DOMAIN InitUsers : users[u] = InitUsers[u]

OwnersAreAdmins ==
    \A p \in DOMAIN projects :
        /\ projects[p].owner \in DOMAIN users
        /\ users[projects[p].owner].role = "admin"

\* the project a createProject answered 201 has stored is owned by its caller,
\* and the task a createTask answered 201 has stored is created by its caller;
\* both callers are admins
CreatorStep ==
    /\ (last'.op = "createProject" /\ last'.status = 201) =>
          /\ AdminCaller(last')
          /\ \E p \in DOMAIN projects' \ DOMAIN projects :
                projects'[p].owner = last'.caller.id
    /\ (last'.op = "createTask" /\ last'.status = 201) =>
          /\ AdminCaller(last')
          /\ last'.created \in DOMAIN tasks' \ DOMAIN tasks
          /\ tasks'[last'.created].createdby = last'.caller.id

\* only an updateTask whose body carries createdby changes the creator of a
\* stored task
CreatedbyStep ==
    \A t \in DOMAIN tasks \cap DOMAIN tasks' :
        tasks'[t].createdby # tasks[t].createdby
            => last'.op = "updateTask" /\ last'.body.createdby # Absent

\* C27: every stored project's owner is a stored user with role admin, the
\* caller of the createProject that made it; a task made by createTask has its
\* admin caller as createdby, and keeps it until an updateTask writes createdby.
OwnerAndCreator ==
    /\ []OwnersAreAdmins
    /\ [][CreatorStep /\ CreatedbyStep]_vars

\* a createTask is answered 201 to an admin who signed up, in a project that
\* another admin owns
OwnerAndCreatorWitness ==
    /\ last.op = "createTask"
    /\ last.status = 201
    /\ last.caller.id \notin DOMAIN InitUsers
    /\ tasks[last.created].createdby = last.caller.id
    /\ projects[tasks[last.created].project].owner # last.caller.id

\* the routes that only read: the four GET routes and signin
OnlyReading == ReadingOps \cup {"signin"}

\* a step that does not answer 200 or 201 (it answers 400, 401, 403, 404 or
\* 409, or its handler goes on to its next store call) writes nothing
FailureStep == last'.status \notin {200, 201} => store' = store

\* no step of a GET request or of a signin writes
ReadingStep ==
    /\ last'.op \in OnlyReading => store' = store
    /\ \A r \in Slots :
          (req'[r] # req[r] /\ (req[r].op \in OnlyReading \/ req'[r].op \in OnlyReading))
              => store' = store

\* C28: a request answered with a status other than 200 or 201 has changed no
\* user, project or task, and neither has a listProjects, getProject,
\* listTasks, getTask or signin, whatever it is answered.
FailuresAndReadsWriteNothing == [][FailureStep /\ ReadingStep]_vars

\* a signup is answered 409 for an email that a user has, in a store that holds
\* a project and a task
FailuresAndReadsWriteNothingWitness ==
    /\ last.op = "signup"
    /\ last.status = 409
    /\ \E u \in DOMAIN users : users[u].email = last.body.email
    /\ projects # <<>>
    /\ tasks # <<>>

\* C29: an updateTask answered 200 has written a task that was stored when
\* the write was applied and returns it as updated, also when a deleteTask of
\* the same task runs between its lookup and its write.
UpdateReportsWrittenTask ==
    [][(last'.op = "updateTask" /\ last'.status = 200)
          => /\ Exists(tasks, last'.id)
             /\ Exists(tasks', last'.id)
             /\ last'.doc # NoDoc
             /\ last'.doc = tasks'[last'.id]]_vars

\* a deleteProject answered 200 has changed no task
DeleteProjectKeepsTasks ==
    (last'.op = "deleteProject" /\ last'.status = 200) => tasks' = tasks

\* the task has a project that is not stored
Orphan(t) == ~Exists(projects, tasks[t].project)

\* an admin's listTasks lists the stored tasks that meet its filters, and a
\* getTask of a stored task by an admin or by its assignee is answered 200 with
\* the task, whether or not the task's project is stored
OrphansAreServed ==
    /\ (last.op = "listTasks" /\ AdminCaller(last)) =>
          /\ last.status = 200
          /\ ListsExactly(last, {t \in DOMAIN tasks : MeetsFilters(t, last.body)})
    /\ (/\ last.op = "getTask"
        /\ Exists(tasks, last.id)
        /\ \/ AdminCaller(last)
           \/ last.caller # NoToken /\ tasks[last.id].assignedto = last.caller.id)
          => last.status = 200 /\ last.doc = tasks[last.id]

\* C30: a deleteProject answered 200 leaves every task as it was; the tasks of
\* the deleted project are still listed to an admin by listTasks and still
\* returned with 200 by getTask to an admin and to their assignee.
DeleteProjectNoCascade ==
    /\ [][DeleteProjectKeepsTasks]_vars
    /\ []OrphansAreServed

\* an admin's listTasks returns a task whose project has been deleted
DeleteProjectNoCascadeWitness ==
    /\ last.op = "listTasks"
    /\ AdminCaller(last)
    /\ projects = <<>>
    /\ \E i \in DOMAIN last.items :
          /\ Orphan(last.items[i])
          /\ tasks[last.items[i]].project \in 1..nextProject

====
